---- MODULE Spec2Model ----
(***************************************************************************)
(* Account and session lifecycle of the user-management service:          *)
(* LoginWithEmail, SignupWithEmail, CheckRefreshToken, TokenRefreshed and  *)
(* SwitchProfile (pkg/service/api_auth.go) and the timer job               *)
(* CleanUpUnverifiedUsers.  Request handlers run concurrently; each store  *)
(* call of a handler is one atomic step, the code between two store calls  *)
(* works on the handler's local copy of the user document.                 *)
(*                                                                         *)
(* Encoding: object ids (user ids, profile ids) are positive integers and  *)
(* 0 stands for the empty string of an id field; all other strings are     *)
(* strings.  Epochs are small positive integers.                           *)
(***************************************************************************)
EXTENDS Integers, Sequences, FiniteSets, TLC

(* ------------------------------ bounds -------------------------------- *)

\* requests (handler invocations) in a behaviour of the whole service
MaxCalls == 1
\* requests in a behaviour of the token handlers alone
MaxTokenCalls == 3
\* requests in a behaviour of the session handlers alone
MaxAuthCalls == 2
\* requests in a behaviour of all five handlers
MaxHandlerCalls == 2
\* requests in a behaviour of a new account's life
MaxLifeCalls == 2
\* requests in a behaviour of the clean-up job with signups
MaxSweepCalls == 2
\* runs of the clean-up job in a behaviour
MaxSweeps == 2
\* the clock runs from 1 to MaxTime
MaxTime == 3

(* ----------------------------- universe ------------------------------- *)

Workers == <<"w1", "w2">>
Procs == {Workers[i] : i \in 1..Len(Workers)}
Sweepers == {"s1", "s2"}

DefaultInstance == "default"
AllInstances == <<"default", "t1">>
Instances == {AllInstances[i] : i \in 1..Len(AllInstances)}
InstanceInputs == Instances \cup {""}

SeedEmail == "r@x.com"
NewEmail == "a@x.com"
EmailInputs == {"", "bad", NewEmail, SeedEmail}
StrongPassword == "Str0ngP@ss!"
PasswordInputs == {"", "wrong", StrongPassword}
TokenInputs == {"", "rt1", "rt2"}
RoleSets == {<<>>, <<"PARTICIPANT">>, <<"PARTICIPANT", "REVIEWER">>, <<"ADMIN">>}

\* s.CleanUpTimeThreshold, in clock units
CleanUpTimeThreshold == 1

Range(s) == {s[i] : i \in 1..Len(s)}

(* ------------------------ models.User and API ------------------------- *)

NoUser == [id |-> 0]
NoInfo == [userId |-> 0]

\* models.Profile{ID, Nickname, ConsentConfirmedAt, AvatarID}
Profile(pid, nick, at) ==
    [id |-> pid, nickname |-> nick, consentConfirmedAt |-> at, avatarID |-> "default"]

\* NewUser without the Profiles field of the literal
NewUser_NoProfile(email, hash, lang, pid, at) ==
    [id |-> 0,
     accountID |-> email,
     confirmedAt |-> 0,
     password |-> hash,
     lang |-> lang,
     roles |-> <<"PARTICIPANT">>,
     profiles |-> <<>>,
     tokens |-> <<>>,
     createdAt |-> 0,
     lastLogin |-> 0,
     lastTokenRefresh |-> 0]

\* the models.User literal built by SignupWithEmail
NewUser(email, hash, lang, pid, at) ==
    [id |-> 0,
     accountID |-> email,
     confirmedAt |-> 0,
     password |-> hash,
     lang |-> lang,
     roles |-> <<"PARTICIPANT">>,
     profiles |-> <<Profile(pid, email, at)>>,
     tokens |-> <<>>,
     createdAt |-> 0,
     lastLogin |-> 0,
     lastTokenRefresh |-> 0]

\* pwhash.HashPassword / pwhash.ComparePasswordWithHash
HashPassword(pw) == <<"argon2id", pw>>
ComparePasswordWithHash(hash, pw) == hash = HashPassword(pw)

\* utils.CheckEmailFormat / utils.CheckPasswordFormat
CheckEmailFormat(email) == email \in {NewEmail, SeedEmail}
CheckPasswordFormat(pw) == pw \in {StrongPassword}

\* User.AddRefreshToken: append, rejecting a token already held
AddRefreshToken(u, token) ==
    IF token \in Range(u.tokens) THEN u
    ELSE [u EXCEPT !.tokens = Append(@, token)]

\* User.RemoveRefreshToken: error when the token is not held
HasRefreshToken(u, token) == token \in Range(u.tokens)
RemoveRefreshToken(u, token) ==
    [u EXCEPT !.tokens = SelectSeq(@, LAMBDA t : t # token)]

\* User.FindProfile: error when no profile has the id
HasProfile(u, pid) == \E i \in 1..Len(u.profiles) : u.profiles[i].id = pid
FindProfile(u, pid) ==
    u.profiles[CHOOSE i \in 1..Len(u.profiles) : u.profiles[i].id = pid]

\* User.ToAPI / Profile.ToAPI
ProfileToAPI(p) ==
    [id |-> p.id, nickname |-> p.nickname,
     consentConfirmedAt |-> p.consentConfirmedAt, avatarId |-> p.avatarID]
UserToAPI(u) ==
    [account |-> [accountId |-> u.accountID,
                  accountConfirmedAt |-> u.confirmedAt,
                  preferredLanguage |-> u.lang],
     profiles |-> [i \in 1..Len(u.profiles) |-> ProfileToAPI(u.profiles[i])]]

(* ------------------------------- state -------------------------------- *)

VARIABLES
    store,      \* per instance, the user collection: a set of user documents
    down,       \* the instances whose database calls fail at present
    now,        \* time.Now().Unix()
    nextOid,    \* next object id handed out (primitive.NewObjectID, insert)
    limit,      \* handler invocations the behaviour may hold
    calls,      \* handler invocations so far
    pc,         \* per worker: where its handler stands
    req,        \* per worker: the request being served, or the last one
                \* served if no request has arrived since
    user,       \* per worker: the handler's local user document
    resp,       \* per worker: the response to req, once the call is over
    sweeps,     \* clean-up runs started so far
    spc,        \* per sweeper: where its run stands
    todo,       \* per sweeper: instances its loop has still to visit
    removed     \* per instance: the last "removed %d" log line, with its time

vars == <<store, down, now, nextOid, limit, calls, pc, req, user, resp,
          sweeps, spc, todo, removed>>
workerVars == <<limit, calls, pc, req, user, resp>>
sweepVars == <<sweeps, spc, todo, removed>>

(* ------------------------------ userdb -------------------------------- *)

\* GetUserByEmail / GetUserByID: the matching documents (none: an error)
GetUserByEmail(inst, email) == {u \in store[inst] : u.accountID = email}
GetUserByID(inst, id) == {u \in store[inst] : u.id = id}

\* AddUser: insert unless the account id is taken; sets id and creation time
CanAddUser(inst, u) == GetUserByEmail(inst, u.accountID) = {}
AddUser(inst, u, id) ==
    [store EXCEPT ![inst] = @ \cup {[u EXCEPT !.id = id, !.createdAt = now]}]

\* UpdateUser: replace the document with the user's id; error when absent
CanUpdateUser(inst, u) == GetUserByID(inst, u.id) # {}
UpdateUser(inst, u) ==
    [store EXCEPT ![inst] = {d \in @ : d.id # u.id} \cup {u}]

\* UpdateLoginTime: set timestamps.lastLogin of one document
UpdateLoginTime(inst, id) ==
    [store EXCEPT ![inst] =
        {IF d.id = id THEN [d EXCEPT !.lastLogin = now] ELSE d : d \in @}]

\* DeleteUnverfiedUsers: the documents the filter matches
Unverified(inst, createdBefore) ==
    {d \in store[inst] : d.confirmedAt = 0 /\ d.createdAt < createdBefore}
DeleteUnverfiedUsers(inst, createdBefore) ==
    [store EXCEPT ![inst] = @ \ Unverified(inst, createdBefore)]

(* ----------------------------- responses ------------------------------ *)

Status(code, msg) == [code |-> code, msg |-> msg, info |-> NoInfo]
Reply(info) == [code |-> "OK", msg |-> "", info |-> info]
NoResp == Status("", "")

StoreErrMsg == "store error"
NoDocumentMsg == "no documents in result"

Request(op, inst, id, email, pw, token, hasProfile, profile) ==
    [op |-> op, inst |-> inst, id |-> id, email |-> email,
     pw |-> pw, token |-> token, hasProfile |-> hasProfile, profile |-> profile]
LoginReq(inst, email, pw) == Request("login", inst, 0, email, pw, "", FALSE, 0)
SignupReq(inst, email, pw) == Request("signup", inst, 0, email, pw, "", FALSE, 0)
CheckReq(inst, id, token) == Request("revoke", inst, id, "", "", token, FALSE, 0)
RefreshReq(inst, id, token) == Request("issue", inst, id, "", "", token, FALSE, 0)
SwitchReq(inst, id, hasProfile, profile) ==
    Request("select", inst, id, "", "", "", hasProfile, profile)
NoReq == [op |-> "", inst |-> "", id |-> 0, email |-> "", pw |-> "",
          token |-> "", hasProfile |-> FALSE, profile |-> 0]

\* a request arrives at worker p: the responses of the calls that are over
\* have gone to their callers
Arrive(p, r, response) ==
    /\ calls' = calls + 1
    /\ req' = [q \in Procs |->
                  IF q = p THEN r ELSE IF pc[q] = "idle" THEN NoReq ELSE req[q]]
    /\ resp' = [q \in Procs |->
                   IF q = p THEN response
                   ELSE IF pc[q] = "idle" THEN NoResp ELSE resp[q]]
    /\ UNCHANGED limit

\* the handler returns: the worker is free again, its local document is dropped
Return(p, r, response) ==
    /\ Arrive(p, r, response)
    /\ pc' = [pc EXCEPT ![p] = "idle"]
    /\ user' = [user EXCEPT ![p] = NoUser]

\* the handler goes on to its second store call with local document u
Proceed(p, r, at, u) ==
    /\ Arrive(p, r, NoResp)
    /\ pc' = [pc EXCEPT ![p] = at]
    /\ user' = [user EXCEPT ![p] = u]

\* the second store call is done and the handler returns
Finish(p, response) ==
    /\ resp' = [resp EXCEPT ![p] = response]
    /\ pc' = [pc EXCEPT ![p] = "idle"]
    /\ user' = [user EXCEPT ![p] = NoUser]
    /\ UNCHANGED <<limit, calls, req>>

\* a request is served by the first free worker
CanCall(p) ==
    /\ pc[p] = "idle"
    /\ calls < limit
    /\ \A i \in 1..Len(Workers) :
          Workers[i] = p => \A j \in 1..(i - 1) : pc[Workers[j]] # "idle"

(* --------------------------- LoginWithEmail --------------------------- *)

InstanceID(inst) == IF inst = "" THEN DefaultInstance ELSE inst

InvalidLogin == Status("InvalidArgument", "invalid username and/or password")

\* LoginUsername without the role test
LoginUsername_Always(u) == u.accountID

\* the account id shown to the caller: only for accounts that are more than
\* a participant
LoginUsername(u) ==
    IF Len(u.roles) > 1 \/ (Len(u.roles) = 1 /\ u.roles[1] # "PARTICIPANT")
    THEN u.accountID ELSE ""

LoginInfo(u, inst) ==
    [userId |-> u.id,
     roles |-> u.roles,
     instanceId |-> inst,
     accountId |-> LoginUsername(u),
     accountConfirmed |-> UserToAPI(u).account.accountConfirmedAt > 0,
     profiles |-> UserToAPI(u).profiles,
     selectedProfile |-> UserToAPI(u).profiles[1],
     preferredLanguage |-> UserToAPI(u).account.preferredLanguage]

\* what the failed UpdateLoginTime is answered with
LoginUpdateError(msg) == Status("InvalidArgument", msg)

\* LoginWithEmail testing only the error of the comparison, not its result
LoginWithEmail_NoMatchCheck(p, inst, email, pw) ==
    /\ CanCall(p)
    /\ LET r == LoginReq(inst, email, pw)
           found == GetUserByEmail(InstanceID(inst), email)
       IN  IF email = "" \/ pw = "" THEN Return(p, r, InvalidLogin)
           ELSE IF InstanceID(inst) \in down \/ found = {} THEN Return(p, r, InvalidLogin)
           ELSE \E u \in found : Proceed(p, r, "login_update", u)
    /\ UNCHANGED <<store, down, now, nextOid, sweepVars>>

\* LoginWithEmail answering a failed lookup as the other handlers do
LoginWithEmail_UserNotFound(p, inst, email, pw) ==
    /\ CanCall(p)
    /\ LET r == LoginReq(inst, email, pw)
           found == GetUserByEmail(InstanceID(inst), email)
       IN  IF email = "" \/ pw = "" THEN Return(p, r, InvalidLogin)
           ELSE IF InstanceID(inst) \in down \/ found = {}
           THEN Return(p, r, Status("Internal", "user not found"))
           ELSE \E u \in found :
                   IF ~ComparePasswordWithHash(u.password, pw)
                   THEN Return(p, r, InvalidLogin)
                   ELSE Proceed(p, r, "login_update", u)
    /\ UNCHANGED <<store, down, now, nextOid, sweepVars>>

\* argument check, GetUserByEmail, password comparison
LoginWithEmail(p, inst, email, pw) ==
    /\ CanCall(p)
    /\ LET r == LoginReq(inst, email, pw)
           found == GetUserByEmail(InstanceID(inst), email)
       IN  IF email = "" \/ pw = "" THEN Return(p, r, InvalidLogin)
           ELSE IF InstanceID(inst) \in down \/ found = {} THEN Return(p, r, InvalidLogin)
           ELSE \E u \in found :
                   IF ~ComparePasswordWithHash(u.password, pw)
                   THEN Return(p, r, InvalidLogin)
                   ELSE Proceed(p, r, "login_update", u)
    /\ UNCHANGED <<store, down, now, nextOid, sweepVars>>

\* UpdateLoginTime and the response, built from the document read before
LoginWithEmailUpdate(p) ==
    /\ pc[p] = "login_update"
    /\ LET inst == InstanceID(req[p].inst)
           u == user[p]
       IN  IF inst \in down
           THEN Finish(p, LoginUpdateError(StoreErrMsg)) /\ UNCHANGED store
           ELSE IF GetUserByID(inst, u.id) = {}
           THEN Finish(p, LoginUpdateError(NoDocumentMsg)) /\ UNCHANGED store
           ELSE /\ store' = UpdateLoginTime(inst, u.id)
                /\ Finish(p, Reply(LoginInfo(u, inst)))
    /\ UNCHANGED <<down, now, nextOid, sweepVars>>

(* --------------------------- SignupWithEmail -------------------------- *)

SignupUsername(u) ==
    IF Len(u.roles) > 1 \/ (Len(u.roles) = 1 /\ u.roles[1] # "PARTICIPANT")
    THEN u.accountID ELSE ""

SignupInfo(u, id, inst) ==
    [userId |-> id,
     roles |-> u.roles,
     instanceId |-> inst,
     accountId |-> SignupUsername(u),
     accountConfirmed |-> FALSE,
     profiles |-> UserToAPI(u).profiles,
     selectedProfile |-> UserToAPI(u).profiles[1],
     preferredLanguage |-> UserToAPI(u).account.preferredLanguage]

\* SignupWithEmail inserting without regard to the accounts there are
SignupWithEmail_Insert(p, inst, email, pw, hashOk) ==
    /\ CanCall(p)
    /\ LET r == SignupReq(inst, email, pw)
           newUser == NewUser(email, HashPassword(pw), "en", nextOid, now)
           instanceID == InstanceID(inst)
       IN  IF ~CheckEmailFormat(email)
           THEN /\ Return(p, r, Status("InvalidArgument", "email not valid"))
                /\ UNCHANGED <<store, nextOid>>
           ELSE IF ~CheckPasswordFormat(pw)
           THEN /\ Return(p, r, Status("InvalidArgument", "password too weak"))
                /\ UNCHANGED <<store, nextOid>>
           ELSE IF ~hashOk
           THEN /\ Return(p, r, Status("Internal", "hash error"))
                /\ UNCHANGED <<store, nextOid>>
           ELSE IF instanceID \in down
           THEN /\ Return(p, r, Status("Internal", StoreErrMsg))
                /\ nextOid' = nextOid + 1
                /\ UNCHANGED store
           ELSE /\ store' = AddUser(instanceID, newUser, nextOid + 1)
                /\ nextOid' = nextOid + 2
                /\ Return(p, r, Reply(SignupInfo(newUser, nextOid + 1, instanceID)))
    /\ UNCHANGED <<down, now, sweepVars>>

\* SignupWithEmail testing the password only after the insert
SignupWithEmail_LateCheck(p, inst, email, pw, hashOk) ==
    /\ CanCall(p)
    /\ LET r == SignupReq(inst, email, pw)
           newUser == NewUser(email, HashPassword(pw), "en", nextOid, now)
           instanceID == InstanceID(inst)
       IN  IF ~CheckEmailFormat(email)
           THEN /\ Return(p, r, Status("InvalidArgument", "email not valid"))
                /\ UNCHANGED <<store, nextOid>>
           ELSE IF ~hashOk
           THEN /\ Return(p, r, Status("Internal", "hash error"))
                /\ UNCHANGED <<store, nextOid>>
           ELSE IF instanceID \in down
           THEN /\ Return(p, r, Status("Internal", StoreErrMsg))
                /\ nextOid' = nextOid + 1
                /\ UNCHANGED store
           ELSE IF ~CanAddUser(instanceID, newUser)
           THEN /\ Return(p, r, Status("Internal", "user already exists"))
                /\ nextOid' = nextOid + 1
                /\ UNCHANGED store
           ELSE /\ store' = AddUser(instanceID, newUser, nextOid + 1)
                /\ nextOid' = nextOid + 2
                /\ IF ~CheckPasswordFormat(pw)
                   THEN Return(p, r, Status("InvalidArgument", "password too weak"))
                   ELSE Return(p, r, Reply(SignupInfo(newUser, nextOid + 1, instanceID)))
    /\ UNCHANGED <<down, now, sweepVars>>

SignupWithEmail(p, inst, email, pw, hashOk) ==
    /\ CanCall(p)
    /\ LET r == SignupReq(inst, email, pw)
           newUser == NewUser(email, HashPassword(pw), "en", nextOid, now)
           instanceID == InstanceID(inst)
       IN  IF ~CheckEmailFormat(email)
           THEN /\ Return(p, r, Status("InvalidArgument", "email not valid"))
                /\ UNCHANGED <<store, nextOid>>
           ELSE IF ~CheckPasswordFormat(pw)
           THEN /\ Return(p, r, Status("InvalidArgument", "password too weak"))
                /\ UNCHANGED <<store, nextOid>>
           ELSE IF ~hashOk
           THEN /\ Return(p, r, Status("Internal", "hash error"))
                /\ UNCHANGED <<store, nextOid>>
           ELSE IF instanceID \in down
           THEN /\ Return(p, r, Status("Internal", StoreErrMsg))
                /\ nextOid' = nextOid + 1
                /\ UNCHANGED store
           ELSE IF ~CanAddUser(instanceID, newUser)
           THEN /\ Return(p, r, Status("Internal", "user already exists"))
                /\ nextOid' = nextOid + 1
                /\ UNCHANGED store
           ELSE /\ store' = AddUser(instanceID, newUser, nextOid + 1)
                /\ nextOid' = nextOid + 2
                /\ Return(p, r, Reply(SignupInfo(newUser, nextOid + 1, instanceID)))
    /\ UNCHANGED <<down, now, sweepVars>>

(* -------------------------- CheckRefreshToken ------------------------- *)

MissingArgument == Status("InvalidArgument", "missing argument")
UserNotFound == Status("Internal", "user not found")
TokenNotFound == Status("Internal", "token not found")
ProfileNotFound == Status("Internal", "profile not found")

\* CheckRefreshToken with the error of RemoveRefreshToken dropped
CheckRefreshToken_IgnoreMissing(p, inst, id, token) ==
    /\ CanCall(p)
    /\ LET r == CheckReq(inst, id, token)
           found == IF inst = "" THEN {} ELSE GetUserByID(inst, id)
       IN  IF token = "" \/ id = 0 \/ inst = "" THEN Return(p, r, MissingArgument)
           ELSE IF inst \in down \/ found = {} THEN Return(p, r, UserNotFound)
           ELSE \E u \in found :
                   Proceed(p, r, "check_update",
                           [RemoveRefreshToken(u, token)
                               EXCEPT !.lastTokenRefresh = now])
    /\ UNCHANGED <<store, down, now, nextOid, sweepVars>>

\* argument check, GetUserByID, RemoveRefreshToken on the local document
CheckRefreshToken(p, inst, id, token) ==
    /\ CanCall(p)
    /\ LET r == CheckReq(inst, id, token)
           found == IF inst = "" THEN {} ELSE GetUserByID(inst, id)
       IN  IF token = "" \/ id = 0 \/ inst = "" THEN Return(p, r, MissingArgument)
           ELSE IF inst \in down \/ found = {} THEN Return(p, r, UserNotFound)
           ELSE \E u \in found :
                   IF ~HasRefreshToken(u, token)
                   THEN Return(p, r, TokenNotFound)
                   ELSE Proceed(p, r, "check_update",
                                [RemoveRefreshToken(u, token)
                                    EXCEPT !.lastTokenRefresh = now])
    /\ UNCHANGED <<store, down, now, nextOid, sweepVars>>

\* UpdateUser with the local document
CheckRefreshTokenUpdate(p) ==
    /\ pc[p] = "check_update"
    /\ IF req[p].inst \in down
       THEN Finish(p, Status("Internal", StoreErrMsg)) /\ UNCHANGED store
       ELSE IF ~CanUpdateUser(req[p].inst, user[p])
       THEN Finish(p, Status("Internal", NoDocumentMsg)) /\ UNCHANGED store
       ELSE /\ store' = UpdateUser(req[p].inst, user[p])
            /\ Finish(p, Status("OK", "refresh token removed"))
    /\ UNCHANGED <<down, now, nextOid, sweepVars>>

(* --------------------------- TokenRefreshed --------------------------- *)

\* TokenRefreshed appending to the token list itself
TokenRefreshed_Append(p, inst, id, token) ==
    /\ CanCall(p)
    /\ LET r == RefreshReq(inst, id, token)
           found == IF inst = "" THEN {} ELSE GetUserByID(inst, id)
       IN  IF token = "" \/ id = 0 \/ inst = "" THEN Return(p, r, MissingArgument)
           ELSE IF inst \in down \/ found = {} THEN Return(p, r, UserNotFound)
           ELSE \E u \in found :
                   Proceed(p, r, "refresh_update",
                           [u EXCEPT !.tokens = Append(@, token),
                                     !.lastTokenRefresh = now])
    /\ UNCHANGED <<store, down, now, nextOid, sweepVars>>

\* argument check, GetUserByID, AddRefreshToken on the local document
TokenRefreshed(p, inst, id, token) ==
    /\ CanCall(p)
    /\ LET r == RefreshReq(inst, id, token)
           found == IF inst = "" THEN {} ELSE GetUserByID(inst, id)
       IN  IF token = "" \/ id = 0 \/ inst = "" THEN Return(p, r, MissingArgument)
           ELSE IF inst \in down \/ found = {} THEN Return(p, r, UserNotFound)
           ELSE \E u \in found :
                   Proceed(p, r, "refresh_update",
                           [AddRefreshToken(u, token)
                               EXCEPT !.lastTokenRefresh = now])
    /\ UNCHANGED <<store, down, now, nextOid, sweepVars>>

\* UpdateUser with the local document
TokenRefreshedUpdate(p) ==
    /\ pc[p] = "refresh_update"
    /\ IF req[p].inst \in down
       THEN Finish(p, Status("Internal", StoreErrMsg)) /\ UNCHANGED store
       ELSE IF ~CanUpdateUser(req[p].inst, user[p])
       THEN Finish(p, Status("Internal", NoDocumentMsg)) /\ UNCHANGED store
       ELSE /\ store' = UpdateUser(req[p].inst, user[p])
            /\ Finish(p, Status("OK", "token refresh time updated"))
    /\ UNCHANGED <<down, now, nextOid, sweepVars>>

(* ---------------------------- SwitchProfile --------------------------- *)

\* utils.IsTokenEmpty on the parsed token of the request
IsTokenEmpty(inst, id) == id = 0 \/ inst = ""

\* SwitchInfo selecting the first profile, as the login response does
SwitchInfo_First(u, inst, pid) ==
    [userId |-> u.id,
     roles |-> u.roles,
     instanceId |-> inst,
     accountId |-> UserToAPI(u).account.accountId,
     accountConfirmed |-> UserToAPI(u).account.accountConfirmedAt > 0,
     profiles |-> UserToAPI(u).profiles,
     selectedProfile |-> UserToAPI(u).profiles[1],
     preferredLanguage |-> UserToAPI(u).account.preferredLanguage]

SwitchInfo(u, inst, pid) ==
    [userId |-> u.id,
     roles |-> u.roles,
     instanceId |-> inst,
     accountId |-> UserToAPI(u).account.accountId,
     accountConfirmed |-> UserToAPI(u).account.accountConfirmedAt > 0,
     profiles |-> UserToAPI(u).profiles,
     selectedProfile |-> ProfileToAPI(FindProfile(u, pid)),
     preferredLanguage |-> UserToAPI(u).account.preferredLanguage]

\* SwitchProfile recording the selection as a login
SwitchProfile_Touch(p, inst, id, hasProfile, profile) ==
    /\ CanCall(p)
    /\ LET r == SwitchReq(inst, id, hasProfile, profile)
           found == IF inst = "" THEN {} ELSE GetUserByID(inst, id)
       IN  IF IsTokenEmpty(inst, id) \/ ~hasProfile
           THEN Return(p, r, MissingArgument) /\ UNCHANGED store
           ELSE IF inst \in down \/ found = {}
           THEN Return(p, r, UserNotFound) /\ UNCHANGED store
           ELSE \E u \in found :
                   IF ~HasProfile(u, profile)
                   THEN Return(p, r, ProfileNotFound) /\ UNCHANGED store
                   ELSE /\ Return(p, r, Reply(SwitchInfo(u, inst, profile)))
                        /\ store' = UpdateLoginTime(inst, u.id)
    /\ UNCHANGED <<down, now, nextOid, sweepVars>>

\* SwitchProfile looking the user up in every instance
SwitchProfile_AnyInstance(p, inst, id, hasProfile, profile) ==
    /\ CanCall(p)
    /\ LET r == SwitchReq(inst, id, hasProfile, profile)
           found == IF inst = "" THEN {}
                    ELSE UNION {GetUserByID(i, id) : i \in Instances}
       IN  IF IsTokenEmpty(inst, id) \/ ~hasProfile THEN Return(p, r, MissingArgument)
           ELSE IF inst \in down \/ found = {} THEN Return(p, r, UserNotFound)
           ELSE \E u \in found :
                   IF ~HasProfile(u, profile)
                   THEN Return(p, r, ProfileNotFound)
                   ELSE Return(p, r, Reply(SwitchInfo(u, inst, profile)))
    /\ UNCHANGED <<store, down, now, nextOid, sweepVars>>

SwitchProfile(p, inst, id, hasProfile, profile) ==
    /\ CanCall(p)
    /\ LET r == SwitchReq(inst, id, hasProfile, profile)
           found == IF inst = "" THEN {} ELSE GetUserByID(inst, id)
       IN  IF IsTokenEmpty(inst, id) \/ ~hasProfile THEN Return(p, r, MissingArgument)
           ELSE IF inst \in down \/ found = {} THEN Return(p, r, UserNotFound)
           ELSE \E u \in found :
                   IF ~HasProfile(u, profile)
                   THEN Return(p, r, ProfileNotFound)
                   ELSE Return(p, r, Reply(SwitchInfo(u, inst, profile)))
    /\ UNCHANGED <<store, down, now, nextOid, sweepVars>>

(* ----------------------- CleanUpUnverifiedUsers ----------------------- *)

\* CreatedBefore with the threshold added to the time
CreatedBefore_Added(t) == t + CleanUpTimeThreshold

\* the second argument of DeleteUnverfiedUsers
CreatedBefore(t) == t - CleanUpTimeThreshold

\* GetAllInstances; on its error the loop runs over no instance
CleanUpUnverifiedUsers(s, dirOk) ==
    /\ spc[s] = "idle"
    /\ sweeps < MaxSweeps
    /\ sweeps' = sweeps + 1
    /\ todo' = [todo EXCEPT ![s] = IF dirOk THEN AllInstances ELSE <<>>]
    /\ spc' = [spc EXCEPT ![s] = IF dirOk THEN "loop" ELSE "idle"]
    /\ UNCHANGED <<store, down, now, nextOid, workerVars, removed>>

\* CleanUpInstance leaving the loop on the error of the deletion
CleanUpInstance_Abort(s) ==
    /\ spc[s] = "loop"
    /\ LET inst == Head(todo[s])
           gone == Unverified(inst, CreatedBefore(now))
       IN  IF inst \notin down
           THEN /\ store' = DeleteUnverfiedUsers(inst, CreatedBefore(now))
                /\ removed' = [removed EXCEPT ![inst] =
                                  [at |-> now, count |-> Cardinality(gone)]]
                /\ todo' = [todo EXCEPT ![s] = Tail(@)]
                /\ spc' = [spc EXCEPT ![s] =
                              IF Tail(todo[s]) = <<>> THEN "idle" ELSE "loop"]
           ELSE /\ todo' = [todo EXCEPT ![s] = <<>>]
                /\ spc' = [spc EXCEPT ![s] = "idle"]
                /\ UNCHANGED <<store, removed>>
    /\ UNCHANGED <<down, now, nextOid, workerVars, sweeps>>

\* one iteration of the loop over the instances
CleanUpInstance(s) ==
    /\ spc[s] = "loop"
    /\ LET inst == Head(todo[s])
           gone == Unverified(inst, CreatedBefore(now))
       IN  IF inst \notin down
           THEN /\ store' = DeleteUnverfiedUsers(inst, CreatedBefore(now))
                /\ removed' = [removed EXCEPT ![inst] =
                                  [at |-> now, count |-> Cardinality(gone)]]
           ELSE UNCHANGED <<store, removed>>
    /\ todo' = [todo EXCEPT ![s] = Tail(@)]
    /\ spc' = [spc EXCEPT ![s] = IF Tail(todo[s]) = <<>> THEN "idle" ELSE "loop"]
    /\ UNCHANGED <<down, now, nextOid, workerVars, sweeps>>

(* ---------------------------- environment ----------------------------- *)

\* the account's owner confirms it (the confirmation flow lives elsewhere)
ConfirmAccount(inst, id) ==
    /\ \E d \in store[inst] :
          /\ d.id = id
          /\ d.confirmedAt = 0
          /\ store' = [store EXCEPT ![inst] =
                          (@ \ {d}) \cup {[d EXCEPT !.confirmedAt = now]}]
    /\ UNCHANGED <<down, now, nextOid, workerVars, sweepVars>>

\* the database of some instances starts or stops failing
Outage(d) ==
    /\ d # down
    /\ down' = d
    /\ UNCHANGED <<store, now, nextOid, workerVars, sweepVars>>

Tick ==
    /\ now < MaxTime
    /\ now' = now + 1
    /\ UNCHANGED <<store, down, nextOid, workerVars, sweepVars>>

(* --------------------------- specification ---------------------------- *)

\* the account present before the first request: confirmed, two profiles
SeedUser(roles, tokens) ==
    [id |-> 1,
     accountID |-> SeedEmail,
     confirmedAt |-> 1,
     password |-> HashPassword(StrongPassword),
     lang |-> "nl",
     roles |-> roles,
     profiles |-> <<Profile(2, SeedEmail, 1), Profile(3, "kid", 1)>>,
     tokens |-> tokens,
     createdAt |-> 1,
     lastLogin |-> 0,
     lastTokenRefresh |-> 0]

IdInputs == {0, 1, 5}
ProfileInputs == {0, 2, 3, 4}

InitWith(n, roleSets, tokenSets) ==
    /\ \E roles \in roleSets, tokens \in tokenSets :
          store = [i \in Instances |->
                      IF i = DefaultInstance THEN {SeedUser(roles, tokens)} ELSE {}]
    /\ down = {}
    /\ now = 1
    /\ nextOid = 4
    /\ limit = n
    /\ calls = 0
    /\ pc = [p \in Procs |-> "idle"]
    /\ req = [p \in Procs |-> NoReq]
    /\ user = [p \in Procs |-> NoUser]
    /\ resp = [p \in Procs |-> NoResp]
    /\ sweeps = 0
    /\ spc = [s \in Sweepers |-> "idle"]
    /\ todo = [s \in Sweepers |-> <<>>]
    /\ removed = [i \in Instances |-> [at |-> 0, count |-> 0]]

Login ==
    \E p \in Procs, inst \in InstanceInputs, email \in EmailInputs,
       pw \in PasswordInputs : LoginWithEmail(p, inst, email, pw)
LoginUpdate == \E p \in Procs : LoginWithEmailUpdate(p)
Signup ==
    \E p \in Procs, inst \in InstanceInputs, email \in EmailInputs,
       pw \in PasswordInputs, hashOk \in BOOLEAN :
       SignupWithEmail(p, inst, email, pw, hashOk)
Revoke ==
    \E p \in Procs, inst \in InstanceInputs, id \in IdInputs,
       token \in TokenInputs : CheckRefreshToken(p, inst, id, token)
RevokeUpdate == \E p \in Procs : CheckRefreshTokenUpdate(p)
Issue ==
    \E p \in Procs, inst \in InstanceInputs, id \in IdInputs,
       token \in TokenInputs : TokenRefreshed(p, inst, id, token)
IssueUpdate == \E p \in Procs : TokenRefreshedUpdate(p)
Select ==
    \E p \in Procs, inst \in InstanceInputs, id \in IdInputs,
       hasProfile \in BOOLEAN, profile \in ProfileInputs :
       SwitchProfile(p, inst, id, hasProfile, profile)
SweepStart == \E s \in Sweepers, dirOk \in BOOLEAN : CleanUpUnverifiedUsers(s, dirOk)
SweepStep == \E s \in Sweepers : CleanUpInstance(s)
Confirm == \E inst \in Instances, id \in IdInputs : ConfirmAccount(inst, id)
Outages == \E d \in SUBSET Instances : Outage(d)

\* the whole service: every handler, one clean-up job, the environment
OneSweepStart == \E dirOk \in BOOLEAN : CleanUpUnverifiedUsers("s1", dirOk)
OneSweepStep == CleanUpInstance("s1")
Init == InitWith(MaxCalls, {<<"PARTICIPANT">>}, {<<"rt1">>})
Next ==
    \/ Login \/ LoginUpdate \/ Signup \/ Revoke \/ RevokeUpdate
    \/ Issue \/ IssueUpdate \/ Select
    \/ OneSweepStart \/ OneSweepStep \/ Confirm \/ Outages \/ Tick
Spec == Init /\ [][Next]_vars

\* the refresh-token handlers alone, two of them at a time
InitToken == InitWith(MaxTokenCalls, {<<"PARTICIPANT">>}, {<<>>})
NextToken == Issue \/ IssueUpdate \/ Revoke \/ RevokeUpdate \/ Outages
TokenSpec == InitToken /\ [][NextToken]_vars

\* the session handlers: signup, login, profile selection
InitAuth == InitWith(MaxAuthCalls, RoleSets, {<<>>})
NextAuth == Signup \/ Login \/ LoginUpdate \/ Select \/ Outages
AuthSpec == InitAuth /\ [][NextAuth]_vars

\* the clean-up job, with the signups and confirmations it races with
NewAccount ==
    \E p \in Procs, inst \in Instances :
       SignupWithEmail(p, inst, NewEmail, StrongPassword, TRUE)
InitSweep == InitWith(MaxSweepCalls, {<<"PARTICIPANT">>}, {<<>>})
NextSweep == NewAccount \/ Confirm \/ Tick \/ SweepStart \/ SweepStep \/ Outages
SweepSpec == InitSweep /\ [][NextSweep]_vars

\* the five handlers on every input, with store failures
InitHandler == InitWith(MaxHandlerCalls, {<<"PARTICIPANT">>}, {<<"rt1">>})
NextHandler ==
    \/ Login \/ LoginUpdate \/ Signup \/ Revoke \/ RevokeUpdate
    \/ Issue \/ IssueUpdate \/ Select \/ Outages
HandlerSpec == InitHandler /\ [][NextHandler]_vars

\* the life of a new account: an account that signed up at time 1 and holds
\* one session is not confirmed yet; well-formed requests for it race with
\* its confirmation and with the clean-up job
NewInstance == "t1"
NewAccountId == 5
NewProfileId == 4
NewAccountUser ==
    [NewUser(NewEmail, HashPassword(StrongPassword), "en", NewProfileId, 1)
        EXCEPT !.id = NewAccountId, !.createdAt = 1, !.tokens = <<"rt1">>]
NewSignup ==
    \E p \in Procs :
       SignupWithEmail(p, NewInstance, NewEmail, StrongPassword, TRUE)
NewLogin ==
    \E p \in Procs : LoginWithEmail(p, NewInstance, NewEmail, StrongPassword)
NewIssue ==
    \E p \in Procs : TokenRefreshed(p, NewInstance, NewAccountId, "rt2")
NewRevoke ==
    \E p \in Procs : CheckRefreshToken(p, NewInstance, NewAccountId, "rt1")
NewSelect ==
    \E p \in Procs :
       SwitchProfile(p, NewInstance, NewAccountId, TRUE, NewProfileId)
NewSweepStart == CleanUpUnverifiedUsers("s1", TRUE)
InitLife ==
    /\ store = [i \in Instances |->
                   IF i = DefaultInstance THEN {SeedUser(<<"PARTICIPANT">>, <<>>)}
                   ELSE IF i = NewInstance THEN {NewAccountUser}
                   ELSE {}]
    /\ down = {}
    /\ now = 1
    /\ nextOid = NewAccountId + 1
    /\ limit = MaxLifeCalls
    /\ calls = 0
    /\ pc = [p \in Procs |-> "idle"]
    /\ req = [p \in Procs |-> NoReq]
    /\ user = [p \in Procs |-> NoUser]
    /\ resp = [p \in Procs |-> NoResp]
    /\ sweeps = 0
    /\ spc = [s \in Sweepers |-> "idle"]
    /\ todo = [s \in Sweepers |-> <<>>]
    /\ removed = [i \in Instances |-> [at |-> 0, count |-> 0]]
NextLife ==
    \/ NewSignup \/ NewLogin \/ LoginUpdate \/ NewIssue \/ IssueUpdate
    \/ NewRevoke \/ RevokeUpdate \/ NewSelect
    \/ Confirm \/ Tick \/ NewSweepStart \/ OneSweepStep
LifeSpec == InitLife /\ [][NextLife]_vars

\* the clean-up job when its goroutine keeps running: a loop that has an
\* instance to visit visits it.  Overlapping runs meet the unconfirmed new
\* account, its confirmation and store failures
NextFairSweep == Confirm \/ Tick \/ SweepStart \/ SweepStep \/ Outages
SweepFairSpec ==
    /\ InitLife
    /\ [][NextFairSweep]_vars
    /\ \A s \in Sweepers : WF_vars(CleanUpInstance(s))

(* ------------------------------ properties ---------------------------- *)

\* this step invokes handler op on worker p
Invoked(p, op) ==
    /\ pc[p] = "idle"
    /\ calls' = calls + 1
    /\ req'[p].op = op
\* this step is the second store call of worker p, begun at position at
Finished(p, at) == pc[p] = at /\ pc'[p] = "idle"
\* the stored documents with an id
Stored(st, inst, id) == {d \in st[inst] : d.id = id}
\* the stored documents with a login identifier
StoredAs(st, inst, email) == {d \in st[inst] : d.accountID = email}
\* the well-formed token requests
TokenArgsOk(r) == r.token # "" /\ r.id # 0 /\ r.inst # ""
\* the refresh tokens persisted for an account (empty when it is absent)
StoredTokens(st, inst, id) ==
    UNION {Range(u.tokens) : u \in {d \in st[inst] : d.id = id}}

\* C1: a revoke of a token that the stored account does not hold is answered
\* "token not found" and writes nothing; a revoke of a held token goes on to
\* the store update, which succeeds while the store answers and the account
\* is there, and a revoke that succeeds leaves the token absent from the
\* stored account, as an issue that succeeds leaves it present: so after
\* issue(t), revoke(t) succeeds and a second revoke(t) is answered "token not
\* found".
C1_RevokeAbsentToken ==
    [][\A p \in Procs :
          /\ (Invoked(p, "revoke") /\ TokenArgsOk(req'[p]) /\ req'[p].inst \notin down)
             => \A u \in GetUserByID(req'[p].inst, req'[p].id) :
                   IF req'[p].token \in Range(u.tokens)
                   THEN pc'[p] = "check_update"
                   ELSE resp'[p] = TokenNotFound /\ pc'[p] = "idle" /\ store' = store
          /\ (Finished(p, "check_update") /\ req[p].inst \notin down)
             => \A d \in Stored(store, req[p].inst, req[p].id) :
                   resp'[p] = Status("OK", "refresh token removed")
          /\ (Finished(p, "check_update") /\ resp'[p].code = "OK")
             => req[p].token \notin StoredTokens(store', req[p].inst, req[p].id)
          /\ (Finished(p, "refresh_update") /\ resp'[p].code = "OK")
             => req[p].token \in StoredTokens(store', req[p].inst, req[p].id)
      ]_vars

\* a third call finds the token gone from an account whose tokens were
\* refreshed before and is answered "token not found"
C1_Witness ==
    \E p \in Procs :
       /\ calls = 3
       /\ req[p].op = "revoke"
       /\ resp[p] = TokenNotFound
       /\ \E u \in GetUserByID(req[p].inst, req[p].id) :
             u.lastTokenRefresh > 0 /\ u.tokens = <<>>

\* C2: no stored account, and no local document a handler is about to
\* write, holds a refresh token twice.
NoDuplicates(seq) == Cardinality(Range(seq)) = Len(seq)
C3_ConcurrentIssuesKeepBoth ==
    \A p \in Procs, q \in Procs :
       (/\ p # q
        /\ pc[p] = "idle" /\ pc[q] = "idle"
        /\ req[p].op = "issue" /\ req[q].op = "issue"
        /\ resp[p].code = "OK" /\ resp[q].code = "OK"
        /\ req[p].inst = req[q].inst /\ req[p].id = req[q].id
        /\ req[p].token # req[q].token)
       => {req[p].token, req[q].token}
             \subseteq StoredTokens(store, req[p].inst, req[p].id)

\* the login identifier is shown exactly to accounts holding a role other
\* than PARTICIPANT
Shown(roles, identifier) ==
    IF \E r \in Range(roles) : r # "PARTICIPANT" THEN identifier ELSE ""

\* C4: a successful login or signup answers with the roles of the stored
\* account and with an account id that is empty when the roles are exactly
\* PARTICIPANT and the login identifier when the account holds another role.
C4_DisplayIdentifierPolicy ==
    [][\A p \in Procs :
          /\ (Finished(p, "login_update") /\ resp'[p].code = "OK")
             => /\ \A d \in Stored(store', resp'[p].info.instanceId, resp'[p].info.userId) :
                      d.roles = resp'[p].info.roles /\ d.accountID = req[p].email
                /\ resp'[p].info.accountId = Shown(resp'[p].info.roles, req[p].email)
          /\ (Invoked(p, "signup") /\ resp'[p].code = "OK")
             => /\ \A d \in Stored(store', resp'[p].info.instanceId, resp'[p].info.userId) :
                      d.roles = resp'[p].info.roles /\ d.accountID = req'[p].email
                /\ resp'[p].info.accountId = Shown(resp'[p].info.roles, req'[p].email)
      ]_vars

\* a login of the two-role account shows its identifier while a signup, which
\* creates a participant, shows none
C4_Witness ==
    \E p \in Procs, q \in Procs :
       /\ req[p].op = "login" /\ resp[p].code = "OK"
       /\ resp[p].info.roles = <<"PARTICIPANT", "REVIEWER">>
       /\ resp[p].info.accountId = SeedEmail
       /\ req[q].op = "signup" /\ resp[q].code = "OK"
       /\ resp[q].info.roles = <<"PARTICIPANT">>
       /\ resp[q].info.accountId = ""

\* C5: a successful profile selection of an account whose roles are exactly
\* PARTICIPANT answers with an empty account id.
C5_SelectHidesParticipantIdentifier ==
    \A p \in Procs :
       (/\ req[p].op = "select"
        /\ resp[p].code = "OK"
        /\ Range(resp[p].info.roles) = {"PARTICIPANT"})
       => resp[p].info.accountId = ""

\* C6: a well-formed profile selection on an existing account, while the
\* store answers, is answered "profile not found" when no profile of the
\* account has the id, and otherwise succeeds with the profile of that id
\* selected and all profiles of the account listed.
C6_SelectProfile ==
    [][\A p \in Procs :
          (/\ Invoked(p, "select")
           /\ ~IsTokenEmpty(req'[p].inst, req'[p].id)
           /\ req'[p].hasProfile
           /\ req'[p].inst \notin down)
          => \A u \in GetUserByID(req'[p].inst, req'[p].id) :
                IF \A i \in 1..Len(u.profiles) : u.profiles[i].id # req'[p].profile
                THEN resp'[p] = ProfileNotFound
                ELSE /\ resp'[p].code = "OK"
                     /\ resp'[p].info.selectedProfile.id = req'[p].profile
                     /\ Len(resp'[p].info.profiles) = Len(u.profiles)
                     /\ \A i \in 1..Len(u.profiles) :
                           /\ resp'[p].info.profiles[i].id = u.profiles[i].id
                           /\ resp'[p].info.profiles[i].nickname = u.profiles[i].nickname
                           /\ u.profiles[i].id = req'[p].profile
                              => resp'[p].info.selectedProfile = resp'[p].info.profiles[i]
      ]_vars

\* the second profile of the two-profile account has been selected
C6_Witness ==
    \E p \in Procs :
       /\ req[p].op = "select"
       /\ resp[p].code = "OK"
       /\ Len(resp[p].info.profiles) = 2
       /\ resp[p].info.selectedProfile = resp[p].info.profiles[2]

\* the login requests that pass the argument check
LoginArgsOk(r) == r.email # "" /\ r.pw # ""

\* C7: a signup with a well-formed identifier and password stores, while the
\* store answers, an unconfirmed account with that identifier, a digest of
\* that password and one profile named after the identifier, and answers
\* confirmed=false with that profile selected.  A login to a stored account
\* with its password goes on to the login-time update, which (the store
\* answering, the account still there) sets lastLogin to the current time and
\* answers with the account's confirmation state and its first profile
\* selected; a login with another password is answered InvalidLogin.
C7_SignupThenLogin ==
    [][\A p \in Procs :
          /\ (/\ Invoked(p, "signup")
              /\ CheckEmailFormat(req'[p].email)
              /\ CheckPasswordFormat(req'[p].pw)
              /\ resp'[p].code = "OK")
             => /\ resp'[p].info.accountConfirmed = FALSE
                /\ Len(resp'[p].info.profiles) = 1
                /\ resp'[p].info.selectedProfile = resp'[p].info.profiles[1]
                /\ resp'[p].info.selectedProfile.nickname = req'[p].email
                /\ \E d \in StoredAs(store', InstanceID(req'[p].inst), req'[p].email) :
                      /\ d.id = resp'[p].info.userId
                      /\ d.confirmedAt = 0
                      /\ ComparePasswordWithHash(d.password, req'[p].pw)
                      /\ Len(d.profiles) = 1
                      /\ d.profiles[1].nickname = req'[p].email
          /\ (/\ Invoked(p, "signup")
              /\ CheckEmailFormat(req'[p].email)
              /\ CheckPasswordFormat(req'[p].pw)
              /\ InstanceID(req'[p].inst) \notin down
              /\ GetUserByEmail(InstanceID(req'[p].inst), req'[p].email) = {})
             => resp'[p].code = "OK" \/ resp'[p] = Status("Internal", "hash error")
          /\ (/\ Invoked(p, "login")
              /\ LoginArgsOk(req'[p])
              /\ InstanceID(req'[p].inst) \notin down)
             => \A u \in GetUserByEmail(InstanceID(req'[p].inst), req'[p].email) :
                   IF ComparePasswordWithHash(u.password, req'[p].pw)
                   THEN pc'[p] = "login_update" /\ user'[p] = u
                   ELSE resp'[p] = InvalidLogin /\ pc'[p] = "idle"
          /\ (/\ Finished(p, "login_update")
              /\ InstanceID(req[p].inst) \notin down)
             => \A d \in Stored(store, InstanceID(req[p].inst), user[p].id) :
                   /\ resp'[p].code = "OK"
                   /\ resp'[p].info.userId = d.id
                   /\ resp'[p].info.accountConfirmed = (user[p].confirmedAt > 0)
                   /\ resp'[p].info.selectedProfile = ProfileToAPI(d.profiles[1])
                   /\ Stored(store', InstanceID(req[p].inst), d.id)
                         = {[d EXCEPT !.lastLogin = now]}
      ]_vars

\* the account created by a signup has logged in with the same credentials:
\* it is still unconfirmed and its login time is set
C7_Witness ==
    \E p \in Procs :
       /\ req[p].op = "login"
       /\ resp[p].code = "OK"
       /\ req[p].email = NewEmail
       /\ resp[p].info.accountConfirmed = FALSE
       /\ resp[p].info.selectedProfile.nickname = NewEmail
       /\ \E d \in Stored(store, resp[p].info.instanceId, resp[p].info.userId) :
             d.lastLogin > 0 /\ d.confirmedAt = 0

\* C8: a login with a non-empty identifier and password is answered with
\* one and the same error, InvalidLogin, when the instance has no account
\* with the identifier and when it has one whose password differs.
C8_AntiEnumeration ==
    [][\A p \in Procs :
          (/\ Invoked(p, "login")
           /\ LoginArgsOk(req'[p])
           /\ \/ GetUserByEmail(InstanceID(req'[p].inst), req'[p].email) = {}
              \/ \E u \in GetUserByEmail(InstanceID(req'[p].inst), req'[p].email) :
                    ~ComparePasswordWithHash(u.password, req'[p].pw))
          => resp'[p] = InvalidLogin /\ pc'[p] = "idle"
      ]_vars

\* a login to an account that exists was refused for its password, with the
\* answer an unknown identifier gets
C8_Witness ==
    \E p \in Procs :
       /\ req[p].op = "login"
       /\ LoginArgsOk(req[p])
       /\ resp[p] = InvalidLogin
       /\ InstanceID(req[p].inst) \notin down
       /\ \E u \in GetUserByEmail(InstanceID(req[p].inst), req[p].email) :
             ~ComparePasswordWithHash(u.password, req[p].pw)

\* C9: when the password was verified and the login-time update fails, the
\* answer carries no session info and its error kind differs from the kind
\* of the answer to a wrong password.
C9_UpdateFailureIsDistinct ==
    [][\A p \in Procs :
          (/\ Finished(p, "login_update")
           /\ \/ InstanceID(req[p].inst) \in down
              \/ Stored(store, InstanceID(req[p].inst), user[p].id) = {})
          => /\ resp'[p].info = NoInfo
             /\ resp'[p].code # "OK"
             /\ resp'[p].code # InvalidLogin.code
      ]_vars

\* the accounts of an instance that a clean-up at time t is to delete
Expired(inst, t) ==
    {d \in store[inst] : d.confirmedAt = 0 /\ d.createdAt < t - CleanUpTimeThreshold}

\* C10: a clean-up run visits every instance of the directory; each visit of
\* an instance whose database answers deletes from it exactly the accounts
\* that are unconfirmed and were created before now - threshold and touches
\* no other instance; a visit at a clock value at which the instance was
\* already cleaned deletes nothing, so that after a visit, whether of one run
\* or of overlapping runs, the instance holds no such account at that clock
\* value.
C10_SweepDeletesExactlyExpired ==
    /\ [][\A s \in Sweepers :
             /\ (spc[s] = "idle" /\ spc'[s] = "loop") => todo'[s] = AllInstances
             /\ spc[s] = "loop"
                => /\ todo'[s] = todo[s] \/ todo'[s] = Tail(todo[s])
                   /\ (todo'[s] # todo[s] /\ Head(todo[s]) \notin down)
                      => /\ store' = [store EXCEPT ![Head(todo[s])] =
                                         @ \ Expired(Head(todo[s]), now)]
                         /\ removed'[Head(todo[s])].count
                               = Cardinality(Expired(Head(todo[s]), now))
                         /\ removed[Head(todo[s])].at = now => store' = store
         ]_vars
    /\ [](\A inst \in Instances : removed[inst].at = now => Expired(inst, now) = {})

\* two runs are over; the account of a successful signup is gone and the
\* last visit of an instance, at the present clock value, deleted nothing
C10_Witness ==
    /\ sweeps = 2
    /\ \A s \in Sweepers : spc[s] = "idle"
    /\ \E p \in Procs :
          /\ req[p].op = "signup"
          /\ resp[p].code = "OK"
          /\ Stored(store, resp[p].info.instanceId, resp[p].info.userId) = {}
          /\ removed[resp[p].info.instanceId] = [at |-> now, count |-> 0]

\* C11: every iteration of the clean-up loop takes exactly the first instance
\* off the instances still to visit, whether its deletion call fails or not:
\* a failing call changes nothing, a call that is answered cleans its instance
\* and logs it, the run is over exactly when no instance is left, and a run
\* that is in its loop comes to its end.
C11_SweepIsolatesFailures ==
    /\ [][\A s \in Sweepers :
             (spc[s] = "loop" /\ todo'[s] # todo[s])
             => /\ todo[s] # <<>>
                /\ todo'[s] = Tail(todo[s])
                /\ spc'[s] = (IF Tail(todo[s]) = <<>> THEN "idle" ELSE "loop")
                /\ Head(todo[s]) \in down => store' = store /\ removed' = removed
                /\ Head(todo[s]) \notin down
                   => /\ removed'[Head(todo[s])].at = now
                      /\ store'[Head(todo[s])]
                            = store[Head(todo[s])] \ Expired(Head(todo[s]), now)
         ]_vars
    /\ \A s \in Sweepers : \A n \in 1..Len(AllInstances) :
          (spc[s] = "loop" /\ Len(todo[s]) = n) ~> (Len(todo[s]) < n)
    /\ \A s \in Sweepers : (spc[s] = "loop") ~> (spc[s] = "idle")

\* the only run is over: the deletion call of the first instance failed and
\* the instance after it was cleaned of an expired account
C11_Witness ==
    /\ sweeps = 1
    /\ \A s \in Sweepers : spc[s] = "idle"
    /\ removed[AllInstances[1]].at = 0
    /\ removed[AllInstances[2]].count = 1

\* the handlers
Operations == {"login", "signup", "issue", "revoke", "select"}
\* this step ends a call of worker p: its handler returns
Returned(p) ==
    \/ \E op \in Operations : Invoked(p, op) /\ pc'[p] = "idle"
    \/ pc[p] # "idle" /\ pc'[p] = "idle"

\* C12: a handler step that returns an error leaves the store as it was, as
\* does a step that only reads; a signup with a malformed identifier or a
\* weak password is answered InvalidArgument, stores nothing and takes no
\* object id; a malformed token request or profile selection is answered
\* "missing argument".
C12_ErrorsLeaveStoreUnchanged ==
    [][\A p \in Procs :
          /\ (Returned(p) /\ resp'[p].code # "OK") => store' = store
          /\ (\E op \in Operations : Invoked(p, op) /\ pc'[p] # "idle")
             => store' = store
          /\ (/\ Invoked(p, "signup")
              /\ ~(CheckEmailFormat(req'[p].email) /\ CheckPasswordFormat(req'[p].pw)))
             => /\ resp'[p].code = "InvalidArgument"
                /\ store' = store
                /\ nextOid' = nextOid
          /\ (/\ Invoked(p, "issue") \/ Invoked(p, "revoke")
              /\ ~TokenArgsOk(req'[p]))
             => resp'[p] = MissingArgument
          /\ (/\ Invoked(p, "select")
              /\ IsTokenEmpty(req'[p].inst, req'[p].id) \/ ~req'[p].hasProfile)
             => resp'[p] = MissingArgument
          /\ (/\ Invoked(p, "login")
              /\ ~LoginArgsOk(req'[p]))
             => resp'[p] = InvalidLogin
      ]_vars

\* a signup with a well-formed identifier and a weak password was refused
\* and the instance has no account with the identifier
C12_Witness ==
    \E p \in Procs :
       /\ req[p].op = "signup"
       /\ req[p].email = NewEmail
       /\ ~CheckPasswordFormat(req[p].pw)
       /\ resp[p] = Status("InvalidArgument", "password too weak")
       /\ InstanceID(req[p].inst) \notin down
       /\ StoredAs(store, InstanceID(req[p].inst), NewEmail) = {}

\* C13: every stored account, and every local document a handler is about to
\* write, has at least one profile, and the account a signup has just been
\* answered for has exactly one.
C13_ProfilesNeverEmpty ==
    /\ \A inst \in Instances : \A u \in store[inst] : Len(u.profiles) >= 1
    /\ \A p \in Procs : pc[p] # "idle" => Len(user[p].profiles) >= 1
    /\ \A p \in Procs :
          (req[p].op = "signup" /\ resp[p].code = "OK")
          => /\ Len(resp[p].info.profiles) = 1
             /\ \A d \in Stored(store, resp[p].info.instanceId, resp[p].info.userId) :
                   Len(d.profiles) = 1

\* the new account has logged in and been issued a second session while the
\* clean-up job ran, and it still has its profile
C13_Witness ==
    /\ sweeps >= 1
    /\ \E d \in Stored(store, NewInstance, NewAccountId) :
          /\ d.lastLogin > 0
          /\ d.tokens = <<"rt1", "rt2">>
          /\ Len(d.profiles) = 1

\* the instance a request is served in
Tenant(r) == IF r.op \in {"login", "signup"} THEN InstanceID(r.inst) ELSE r.inst

\* C14: a handler step changes no account of an instance other than the one
\* its request names.  A token request or profile selection for an id that
\* the named instance does not hold is answered "user not found", and a login
\* with an identifier the named instance does not hold is refused, whatever
\* the other instances hold; the document a handler works on, and the account
\* a success is answered for, is one of the named instance.  A login or
\* signup naming no instance is served in the instance "default".
C14_TenantIsolation ==
    [][\A p \in Procs :
          /\ (\E op \in Operations : Invoked(p, op))
             => /\ \A i \in Instances : i # Tenant(req'[p]) => store'[i] = store[i]
                /\ pc'[p] # "idle"
                   => \E d \in Stored(store, Tenant(req'[p]), user'[p].id) :
                         d.accountID = user'[p].accountID
          /\ (pc[p] # "idle" /\ pc'[p] = "idle")
             => \A i \in Instances : i # Tenant(req[p]) => store'[i] = store[i]
          /\ (/\ Invoked(p, "issue") \/ Invoked(p, "revoke") \/ Invoked(p, "select")
              /\ req'[p].inst \in Instances
              /\ Stored(store, req'[p].inst, req'[p].id) = {})
             => resp'[p] \in {UserNotFound, MissingArgument}
          /\ (/\ Invoked(p, "login")
              /\ StoredAs(store, InstanceID(req'[p].inst), req'[p].email) = {})
             => resp'[p] = InvalidLogin
          /\ (Invoked(p, "select") /\ resp'[p].code = "OK")
             => /\ resp'[p].info.instanceId = req'[p].inst
                /\ Stored(store, req'[p].inst, resp'[p].info.userId) # {}
          /\ (Invoked(p, "signup") /\ resp'[p].code = "OK")
             => /\ resp'[p].info.instanceId = InstanceID(req'[p].inst)
                /\ req'[p].inst = "" => resp'[p].info.instanceId = "default"
                /\ Stored(store', resp'[p].info.instanceId, resp'[p].info.userId) # {}
          /\ (Finished(p, "login_update") /\ resp'[p].code = "OK")
             => /\ resp'[p].info.instanceId = InstanceID(req[p].inst)
                /\ req[p].inst = "" => resp'[p].info.instanceId = "default"
                /\ Stored(store', resp'[p].info.instanceId, resp'[p].info.userId) # {}
      ]_vars

\* instance "t1" holds the account of a signup, and a token request or
\* profile selection with its id naming instance "default" was answered
\* "user not found"
C14_Witness ==
    \E p \in Procs :
       /\ req[p].op \in {"issue", "revoke", "select"}
       /\ req[p].inst = "default"
       /\ resp[p] = UserNotFound
       /\ "default" \notin down
       /\ \E d \in Stored(store, "t1", req[p].id) : d.accountID = NewEmail

\* the answers of the kind of "user not found"
AccountNotFound(response) == response.code = UserNotFound.code /\ response.info = NoInfo

\* C15: a well-formed issue, revoke or login whose account is absent at the
\* handler's read, or absent at the handler's write after the clean-up job
\* deleted it, is answered with an error of the kind of "user not found", and
\* the account is still absent after the handler's step.
C15_DeletedAccountNotFound ==
    [][\A p \in Procs :
          /\ (/\ Invoked(p, "issue") \/ Invoked(p, "revoke")
              /\ TokenArgsOk(req'[p])
              /\ Stored(store, req'[p].inst, req'[p].id) = {})
             => /\ AccountNotFound(resp'[p])
                /\ Stored(store', req'[p].inst, req'[p].id) = {}
          /\ (/\ Invoked(p, "login")
              /\ LoginArgsOk(req'[p])
              /\ StoredAs(store, InstanceID(req'[p].inst), req'[p].email) = {})
             => /\ AccountNotFound(resp'[p])
                /\ StoredAs(store', InstanceID(req'[p].inst), req'[p].email) = {}
          /\ (/\ pc[p] \in {"refresh_update", "check_update", "login_update"}
              /\ pc'[p] = "idle"
              /\ Stored(store, Tenant(req[p]), user[p].id) = {})
             => /\ AccountNotFound(resp'[p])
                /\ Stored(store', Tenant(req[p]), user[p].id) = {}
      ]_vars

C17_ConfirmationIsMonotonic ==
    [][\A inst \in Instances : \A d \in store[inst] :
          d.confirmedAt > 0
          => \A e \in Stored(store', inst, d.id) : e.confirmedAt > 0
      ]_vars

\* C18: a profile selection is over in the step that reads the account, and
\* that step, whatever its input and its answer, leaves the store and the
\* object ids as they were.
C18_SelectIsReadOnly ==
    [][\A p \in Procs :
          Invoked(p, "select")
          => /\ pc'[p] = "idle"
             /\ resp'[p] # NoResp
             /\ store' = store
             /\ nextOid' = nextOid
      ]_vars

\* a profile of an account that has logged in was selected: the account's
\* login time is the time of the login and it holds no session
C18_Witness ==
    \E p \in Procs :
       /\ req[p].op = "select"
       /\ resp[p].code = "OK"
       /\ \E d \in Stored(store, req[p].inst, req[p].id) :
             d.lastLogin > 0 /\ d.tokens = <<>> /\ d.lastTokenRefresh = 0

\* C19: when two workers have both been answered for revoking the same
\* token of the same account in calls that ran at the same time, at most one
\* of the answers is success.
C19_ConcurrentRevokesOneWins ==
    \A p \in Procs, q \in Procs :
       (/\ p # q
        /\ pc[p] = "idle" /\ pc[q] = "idle"
        /\ req[p].op = "revoke" /\ req[q].op = "revoke"
        /\ req[p].inst = req[q].inst /\ req[p].id = req[q].id
        /\ req[p].token = req[q].token)
       => ~(resp[p].code = "OK" /\ resp[q].code = "OK")

\* the write of worker p changed, of the account d, the tokens to the set
\* toks and the refresh time to the present, and nothing else in the store
TokenEffect(p, d, toks) ==
    /\ \E e \in Stored(store', req[p].inst, d.id) :
          /\ Range(e.tokens) = toks
          /\ e.lastTokenRefresh = now
          /\ [e EXCEPT !.tokens = d.tokens, !.lastTokenRefresh = d.lastTokenRefresh] = d
    /\ \A i \in Instances :
          {x \in store'[i] : i # req[p].inst \/ x.id # d.id}
             = {x \in store[i] : i # req[p].inst \/ x.id # d.id}

\* C20: the write of a revoke that succeeds leaves the stored tokens of the
\* account equal to those stored before it without the token, the write of
\* an issue that succeeds leaves them equal to those stored before it with
\* the token; both set lastTokenRefresh to the present time and change
\* nothing else of the account and no other account.  When a revoke of one
\* token and an issue of another for the same account, run at the same time,
\* have both succeeded, the first token is not stored and the second is.
C20_TokenOperationEffect ==
    /\ [][\A p \in Procs :
             /\ (Finished(p, "check_update") /\ resp'[p].code = "OK")
                => \A d \in Stored(store, req[p].inst, req[p].id) :
                      TokenEffect(p, d, Range(d.tokens) \ {req[p].token})
             /\ (Finished(p, "refresh_update") /\ resp'[p].code = "OK")
                => \A d \in Stored(store, req[p].inst, req[p].id) :
                      TokenEffect(p, d, Range(d.tokens) \cup {req[p].token})
         ]_vars
    /\ [](\A p \in Procs, q \in Procs :
            (/\ pc[p] = "idle" /\ pc[q] = "idle"
             /\ req[p].op = "revoke" /\ req[q].op = "issue"
             /\ resp[p].code = "OK" /\ resp[q].code = "OK"
             /\ req[p].inst = req[q].inst /\ req[p].id = req[q].id
             /\ req[p].token # req[q].token)
            => /\ req[p].token \notin StoredTokens(store, req[p].inst, req[p].id)
               /\ req[q].token \in StoredTokens(store, req[p].inst, req[p].id))

====
